---- MODULE Spec2Model ----
(***************************************************************************)
(* Model of streamlit_app.py (HEARTEST PCG analyzer).                      *)
(*                                                                         *)
(* One script run of a browser session is a sequence of steps: the upload  *)
(* loop and the sidebar inputs, the "Save Patient Case" handler, the       *)
(* waveform section, the "Send Case via SMS" handler and the Case History  *)
(* section.  The patient data file and the edited-audio folder are shared  *)
(* by all sessions; st.session_state is per session; everything else is    *)
(* local to one run.                                                       *)
(*                                                                         *)
(* Strings that the program takes apart (paths, the record's file field)   *)
(* are sequences of tokens: single characters, and the valve labels and    *)
(* folder names as one token each (they contain no separator character).   *)
(***************************************************************************)
EXTENDS Integers, Sequences, FiniteSets, TLC

\* ------------------------------------------------------------------ bounds
\* Number of times datetime.now() is read for a record (bounds the saves).
MaxClock == 2

\* ------------------------------------------------------- program constants
Sessions == {1, 2}

valve_labels == <<"Aortic", "Pulmonary", "Tricuspid", "Mitral">>

Labels == {valve_labels[k] : k \in 1..Len(valve_labels)}

UPLOAD_FOLDER == <<"uploaded_audios">>

EDITED_FOLDER == <<"edited_audios">>

\* ------------------------------------------------------------------ inputs
\* Uploaded files are named by character sequences (file.name).
NoUploads == [l \in {} |-> <<"a">>]

OnlyAortic == [l \in {"Aortic"} |-> <<"a">>]

SameName == [l \in Labels |-> <<"a">>]

OtherName == [l \in Labels |-> IF l = "Pulmonary" THEN <<"b", "_", "c">> ELSE <<"a">>]

\* What the four uploaders hold in a run: label -> file.name.
UploadChoices == { NoUploads, OnlyAortic, SameName, OtherName }

Phones == { "", "+15558675309" }

Buttons == { "none", "save", "sms" }

PatientNames == { "Ann" }

Ages == { 30 }

Genders == { "Male" }

NotesTexts == { "murmur" }

Heights == { 170 }

Weights == { 65 }

\* ------------------------------------------------------------ pure helpers
\* os.path.join(folder, name)
PathJoin(folder, name) == folder \o <<"/">> \o name

\* Position of the last "/" in p, 0 when there is none.
RECURSIVE LastSlash(_, _)
LastSlash(p, k) ==
  IF k = 0 THEN 0
  ELSE IF p[k] = "/" THEN k ELSE LastSlash(p, k - 1)

\* os.path.basename(p)
Basename(p) == SubSeq(p, LastSlash(p, Len(p)) + 1, Len(p))

JoinLastOnly(names) ==
  IF Len(names) = 0 THEN <<>>
  ELSE names[Len(names)]

\* ", ".join(names)
RECURSIVE JoinComma(_)
JoinComma(names) ==
  IF Len(names) = 0 THEN <<>>
  ELSE IF Len(names) = 1 THEN names[1]
  ELSE names[1] \o <<",", " ">> \o JoinComma(Tail(names))

\* Position of the first ", " in s at or after k, 0 when there is none.
RECURSIVE FindCommaSpace(_, _)
FindCommaSpace(s, k) ==
  IF k + 1 > Len(s) THEN 0
  ELSE IF s[k] = "," /\ s[k + 1] = " " THEN k
  ELSE FindCommaSpace(s, k + 1)

\* s.split(', ')[0]
FirstField(s) ==
  LET k == FindCommaSpace(s, 1)
  IN IF k = 0 THEN s ELSE SubSeq(s, 1, k - 1)

\* Position of the first "_" in s at or after k, 0 when there is none.
RECURSIVE FindUnderscore(_, _)
FindUnderscore(s, k) ==
  IF k > Len(s) THEN 0
  ELSE IF s[k] = "_" THEN k
  ELSE FindUnderscore(s, k + 1)

\* s.split('_', 1) has a second element.
HasSuffix(s) == FindUnderscore(s, 1) # 0

\* s.split('_', 1)[1]
SuffixAfterUnderscore(s) == SubSeq(s, FindUnderscore(s, 1) + 1, Len(s))

\* round(weight / ((height / 100) ** 2), 2), in hundredths.
BMI(height, weight) ==
  (2 * weight * 1000000 + height * height) \div (2 * height * height)

\* path = os.path.join(UPLOAD_FOLDER, f"{label}_{file.name}")
UploadPath(label, name) == PathJoin(UPLOAD_FOLDER, <<label, "_">> \o name)

\* edited_path = os.path.join(EDITED_FOLDER, os.path.basename(path))
EditedPath(path) == PathJoin(EDITED_FOLDER, Basename(path))

\* The three slider keys edit_and_show_waveform creates for a label.
SliderKeys(label) ==
  { <<"amp_slider", label>>, <<"dur_slider", label>>, <<"noise_slider", label>> }

\* filename = f"{label}_{entry['file'].split(', ')[0].split('_', 1)[1]}"
HistoryFilename(entry, label) ==
  <<label, "_">> \o SuffixAfterUnderscore(FirstField(entry.file))

\* ------------------------------------------------------------------- state
VARIABLES
  patient_file,   \* patient_data.json: [st: absent | malformed | list, recs]
  edited,         \* paths of the files present under edited_audios
  clock,          \* number of datetime.now() readings taken for records
  patient_saved,  \* st.session_state["patient_saved"], per session
  pc,             \* position of each session's script run
  valve_paths,    \* per run: label -> uploaded path, for the labels uploaded
  phone,          \* per run: the phone text input
  button,         \* per run: the button whose press started the run
  i,              \* per run: position in the current loop over valve_labels
  edited_files,   \* per run: basenames collected by the save handler
  existing,       \* per run: the list save_patient_data read
  data,           \* per run: the record being saved
  shown,          \* per run: messages and sections put on the page
  calls,          \* per run: calls of edit_and_show_waveform per label
  sliders,        \* per run: slider keys created
  sms_calls,      \* per run: calls of send_sms
  written,        \* per run: paths written by save_wav
  hist            \* per run: what Case History rendered, newest first

shared == <<patient_file, edited, clock>>

locals == <<valve_paths, phone, button, i, edited_files, existing, data,
            shown, calls, sliders, sms_calls, written, hist>>

vars == <<patient_file, edited, clock, patient_saved, pc, valve_paths, phone,
          button, i, edited_files, existing, data, shown, calls, sliders,
          sms_calls, written, hist>>

NoPaths == [l \in {} |-> <<>>]

NoData ==
  [name |-> "", age |-> 0, gender |-> "", notes |-> "", height |-> 0,
   weight |-> 0, bmi |-> 0, file |-> <<>>, date |-> 0]

NoCalls == [l \in Labels |-> 0]

AbsentFile == [st |-> "absent", recs |-> <<>>]

\* State after the module-level set-up (lines 15-22) and before any run.
Init ==
  /\ patient_file = AbsentFile
  /\ edited = {}
  /\ clock = 0
  /\ patient_saved = [s \in Sessions |-> FALSE]
  /\ pc = [s \in Sessions |-> "idle"]
  /\ valve_paths = [s \in Sessions |-> NoPaths]
  /\ phone = [s \in Sessions |-> ""]
  /\ button = [s \in Sessions |-> "none"]
  /\ i = [s \in Sessions |-> 1]
  /\ edited_files = [s \in Sessions |-> <<>>]
  /\ existing = [s \in Sessions |-> <<>>]
  /\ data = [s \in Sessions |-> NoData]
  /\ shown = [s \in Sessions |-> {}]
  /\ calls = [s \in Sessions |-> NoCalls]
  /\ sliders = [s \in Sessions |-> {}]
  /\ sms_calls = [s \in Sessions |-> 0]
  /\ written = [s \in Sessions |-> {}]
  /\ hist = [s \in Sessions |-> <<>>]

\* ----------------------------------------------------------------- actions
\* A script run starts: the upload loop fills valve_paths from the uploaders
\* that hold a file, session_state gets its default, the sidebar is read.
Begin(s, uploads, phones, buttons) ==
  /\ pc[s] = "idle"
  /\ \E up \in uploads, ph \in phones, b \in buttons :
       /\ b = "save" => clock < MaxClock
       /\ valve_paths' =
            [valve_paths EXCEPT ![s] = [l \in DOMAIN up |-> UploadPath(l, up[l])]]
       /\ phone' = [phone EXCEPT ![s] = ph]
       /\ button' = [button EXCEPT ![s] = b]
  /\ pc' = [pc EXCEPT ![s] = "save_button"]
  /\ UNCHANGED <<shared, patient_saved, i, edited_files, existing, data, shown,
                 calls, sliders, sms_calls, written, hist>>

StartRun(s) == Begin(s, UploadChoices, Phones, Buttons)

\* len(valve_paths) == 4
AllUploaded(s) == Cardinality(DOMAIN valve_paths[s]) = Len(valve_labels)

\* if st.button("Save Patient Case"): if len(valve_paths) == 4:
SaveButton(s) ==
  /\ pc[s] = "save_button"
  /\ IF button[s] = "save" /\ AllUploaded(s)
     THEN pc' = [pc EXCEPT ![s] = "save_edit"]
     ELSE pc' = [pc EXCEPT ![s] = "waveforms"]
  /\ i' = [i EXCEPT ![s] = 1]
  /\ UNCHANGED <<shared, patient_saved, valve_paths, phone, button,
                 edited_files, existing, data, shown, calls, sliders,
                 sms_calls, written, hist>>

\* How a call of edit_and_show_waveform can go, as far as the upload decides.
EditOutcomes == { "ok", "unreadable", "display_fails" }

\* edit_and_show_waveform raises before it writes anything: wav.read on an
\* unreadable upload, or a slider whose key the run has already created.
EditFaultsEarly(s, label, outcome) ==
  \/ outcome = "unreadable"
  \/ SliderKeys(label) \cap sliders[s] # {}

\* edit_and_show_waveform raises: early, or after the write while it displays
\* the audio and the waveforms (lines 102-110).
EditFaults(s, label, outcome) ==
  \/ EditFaultsEarly(s, label, outcome)
  \/ outcome = "display_fails"

WritesAlways(save_edit) == TRUE

\* if save_edit: save_wav(edited_path, filtered_audio, sr)
WritesFile(save_edit) == save_edit

\* edit_and_show_waveform(path, label, save_edit), up to its return.
edit_and_show_waveform(s, path, label, save_edit, outcome) ==
  /\ calls' = [calls EXCEPT ![s][label] = @ + 1]
  /\ IF EditFaultsEarly(s, label, outcome)
     THEN UNCHANGED <<sliders, edited, written>>
     ELSE /\ sliders' = [sliders EXCEPT ![s] = @ \cup SliderKeys(label)]
          /\ IF WritesFile(save_edit)
             THEN /\ edited' = edited \cup {EditedPath(path)}
                  /\ written' = [written EXCEPT ![s] = @ \cup {EditedPath(path)}]
             ELSE UNCHANGED <<edited, written>>

\* One iteration of the save handler's loop (lines 148-150).
SaveEdit(s) ==
  /\ pc[s] = "save_edit"
  /\ LET label == valve_labels[i[s]]
         path == valve_paths[s][label]
     IN \E outcome \in EditOutcomes :
          /\ edit_and_show_waveform(s, path, label, TRUE, outcome)
          /\ IF EditFaults(s, label, outcome)
             THEN /\ pc' = [pc EXCEPT ![s] = "fault"]
                  /\ UNCHANGED <<i, edited_files>>
             ELSE /\ edited_files' =
                       [edited_files EXCEPT ![s] = Append(@, Basename(EditedPath(path)))]
                  /\ i' = [i EXCEPT ![s] = @ + 1]
                  /\ pc' = [pc EXCEPT ![s] =
                              IF i[s] = Len(valve_labels) THEN "save_read" ELSE "save_edit"]
  /\ UNCHANGED <<patient_file, clock, patient_saved, valve_paths, phone, button,
                 existing, data, shown, sms_calls, hist>>

CanParseAlways(f) == TRUE

\* json.load(f) returns: the file holds JSON text.
CanParse(f) == f.st # "malformed"

\* The record is built (lines 152-162) and save_patient_data reads the file
\* (lines 26-30).
SaveRead(s) ==
  /\ pc[s] = "save_read"
  /\ \E n \in PatientNames, a \in Ages, g \in Genders, t \in NotesTexts,
        h \in Heights, w \in Weights :
       data' = [data EXCEPT ![s] =
                  [name |-> n, age |-> a, gender |-> g, notes |-> t,
                   height |-> h, weight |-> w, bmi |-> BMI(h, w),
                   file |-> JoinComma(edited_files[s]), date |-> clock + 1]]
  /\ clock' = clock + 1
  /\ IF patient_file.st # "absent" /\ ~CanParse(patient_file)
     THEN /\ pc' = [pc EXCEPT ![s] = "fault"]
          /\ UNCHANGED existing
     ELSE /\ existing' = [existing EXCEPT ![s] =
                            IF patient_file.st # "absent" THEN patient_file.recs ELSE <<>>]
          /\ pc' = [pc EXCEPT ![s] = "save_write"]
  /\ UNCHANGED <<patient_file, edited, patient_saved, valve_paths, phone, button,
                 i, edited_files, shown, calls, sliders, sms_calls, written, hist>>

\* load_patient_data() on a file that parses, or on no file.
load_patient_data == IF patient_file.st # "absent" THEN patient_file.recs ELSE <<>>

WrittenAlone(old, d) == <<d>>

WrittenOnCurrent(old, d) == Append(load_patient_data, d)

\* What save_patient_data writes back (lines 31-33).
Written(old, d) == Append(old, d)

\* save_patient_data appends and writes, then the handler sets patient_saved
\* and shows the success message (lines 31-33, 164-165).
SaveWrite(s) ==
  /\ pc[s] = "save_write"
  /\ patient_file' = [st |-> "list", recs |-> Written(existing[s], data[s])]
  /\ patient_saved' = [patient_saved EXCEPT ![s] = TRUE]
  /\ shown' = [shown EXCEPT ![s] = @ \cup {"saved"}]
  /\ i' = [i EXCEPT ![s] = 1]
  /\ pc' = [pc EXCEPT ![s] = "waveforms"]
  /\ UNCHANGED <<edited, clock, valve_paths, phone, button, edited_files,
                 existing, data, calls, sliders, sms_calls, written, hist>>

\* The waveform section (lines 167-171), one label per step.
Waveforms(s) ==
  /\ pc[s] = "waveforms"
  /\ IF ~patient_saved[s] \/ i[s] > Len(valve_labels)
     THEN /\ pc' = [pc EXCEPT ![s] = "sms_button"]
          /\ UNCHANGED <<i, calls, sliders, edited, written>>
     ELSE LET label == valve_labels[i[s]]
          IN IF label \notin DOMAIN valve_paths[s]
             THEN /\ i' = [i EXCEPT ![s] = @ + 1]
                  /\ UNCHANGED <<pc, calls, sliders, edited, written>>
             ELSE \E outcome \in EditOutcomes :
                    /\ edit_and_show_waveform(s, valve_paths[s][label], label,
                                              FALSE, outcome)
                    /\ IF EditFaults(s, label, outcome)
                       THEN /\ pc' = [pc EXCEPT ![s] = "fault"]
                            /\ UNCHANGED i
                       ELSE /\ i' = [i EXCEPT ![s] = @ + 1]
                            /\ UNCHANGED pc
  /\ UNCHANGED <<patient_file, clock, patient_saved, valve_paths, phone, button,
                 edited_files, existing, data, shown, sms_calls, hist>>

CompleteWithoutPhone(s) == AllUploaded(s)

\* len(valve_paths) == 4 and phone
Complete(s) == AllUploaded(s) /\ phone[s] # ""

AfterSendUncaught(raises) == IF raises THEN "fault" ELSE "history"

\* try: send_sms(...) except Exception: the run goes on either way.
AfterSend(raises) == "history"

\* if st.button("Send Case via SMS"): ... (lines 173-186).  send_sms either
\* returns or raises; the handler catches what it raises.
SmsButton(s) ==
  /\ pc[s] = "sms_button"
  /\ IF button[s] = "sms"
     THEN IF Complete(s)
          THEN /\ sms_calls' = [sms_calls EXCEPT ![s] = @ + 1]
               /\ \E raises \in BOOLEAN :
                    /\ shown' = [shown EXCEPT ![s] =
                                   @ \cup {IF raises THEN "sms_error" ELSE "sms_success"}]
                    /\ pc' = [pc EXCEPT ![s] = AfterSend(raises)]
          ELSE /\ shown' = [shown EXCEPT ![s] = @ \cup {"sms_warning"}]
               /\ pc' = [pc EXCEPT ![s] = "history"]
               /\ UNCHANGED sms_calls
     ELSE /\ pc' = [pc EXCEPT ![s] = "history"]
          /\ UNCHANGED <<shown, sms_calls>>
  /\ UNCHANGED <<shared, patient_saved, valve_paths, phone, button, i,
                 edited_files, existing, data, calls, sliders, written, hist>>

HistoryAudioUnchecked(entry) == Labels

\* The labels whose looked-up file exists, so that audio and waveform show.
HistoryAudio(entry) ==
  { l \in Labels : PathJoin(EDITED_FOLDER, HistoryFilename(entry, l)) \in edited }

\* The Case History section (lines 188-208).
History(s) ==
  /\ pc[s] = "history"
  /\ LET patient_data == load_patient_data
         n == Len(patient_data)
     IN IF \/ patient_file.st # "absent" /\ ~CanParse(patient_file)
           \/ \E k \in 1..n : ~HasSuffix(FirstField(patient_data[k].file))
        THEN /\ pc' = [pc EXCEPT ![s] = "fault"]
             /\ UNCHANGED <<shown, hist>>
        ELSE /\ pc' = [pc EXCEPT ![s] = "done"]
             /\ shown' = [shown EXCEPT ![s] =
                            @ \cup {IF n > 0 THEN "history" ELSE "no_history"}]
             /\ hist' = [hist EXCEPT ![s] =
                           [k \in 1..n |->
                              LET entry == patient_data[n + 1 - k]
                              IN [entry |-> entry, audio |-> HistoryAudio(entry)]]]
  /\ UNCHANGED <<shared, patient_saved, valve_paths, phone, button, i,
                 edited_files, existing, data, calls, sliders, sms_calls, written>>

\* The run is over (end of script, or an unhandled exception): its locals go.
EndRun(s) ==
  /\ pc[s] \in {"done", "fault"}
  /\ pc' = [pc EXCEPT ![s] = "idle"]
  /\ valve_paths' = [valve_paths EXCEPT ![s] = NoPaths]
  /\ phone' = [phone EXCEPT ![s] = ""]
  /\ button' = [button EXCEPT ![s] = "none"]
  /\ i' = [i EXCEPT ![s] = 1]
  /\ edited_files' = [edited_files EXCEPT ![s] = <<>>]
  /\ existing' = [existing EXCEPT ![s] = <<>>]
  /\ data' = [data EXCEPT ![s] = NoData]
  /\ shown' = [shown EXCEPT ![s] = {}]
  /\ calls' = [calls EXCEPT ![s] = NoCalls]
  /\ sliders' = [sliders EXCEPT ![s] = {}]
  /\ sms_calls' = [sms_calls EXCEPT ![s] = 0]
  /\ written' = [written EXCEPT ![s] = {}]
  /\ hist' = [hist EXCEPT ![s] = <<>>]
  /\ UNCHANGED <<shared, patient_saved>>

AllIdle == \A s \in Sessions : pc[s] = "idle"

\* Someone deletes an edited audio file between runs.
DeleteEdited ==
  /\ AllIdle
  /\ \E f \in edited : edited' = edited \ {f}
  /\ UNCHANGED <<patient_file, clock, patient_saved, pc, locals>>

\* The patient data file is left holding text that does not parse.
CorruptFile ==
  /\ AllIdle
  /\ patient_file.st = "list"
  /\ patient_file' = [st |-> "malformed", recs |-> <<>>]
  /\ UNCHANGED <<edited, clock, patient_saved, pc, locals>>

\* ---------------------------------------------------------- specifications
\* One browser session.
Next ==
  \/ StartRun(1)
  \/ SaveButton(1)
  \/ SaveEdit(1)
  \/ SaveRead(1)
  \/ SaveWrite(1)
  \/ Waveforms(1)
  \/ SmsButton(1)
  \/ History(1)
  \/ EndRun(1)
  \/ DeleteEdited
  \/ CorruptFile

Spec == Init /\ [][Next]_vars

\* Two browser sessions on the same server, both saving cases: their runs
\* interleave step by step, and nothing else touches the files.
StartRunConc(s) == Begin(s, {SameName, OtherName}, {""}, {"save", "sms"})

NextConc ==
  \E s \in Sessions :
    \/ StartRunConc(s)
    \/ SaveButton(s)
    \/ SaveEdit(s)
    \/ SaveRead(s)
    \/ SaveWrite(s)
    \/ Waveforms(s)
    \/ SmsButton(s)
    \/ History(s)
    \/ EndRun(s)

SpecConc == Init /\ [][NextConc]_vars

\* ------------------------------------------------------------------ claims
\* A step in which session s finishes save_patient_data.
SaveCompletes(s) == pc[s] = "save_write" /\ pc'[s] = "waveforms"

\* C1: with a single writer, a completed save_patient_data(d) leaves the file
\* holding exactly what load_patient_data() returned before the call, followed
\* by d: earlier records are kept, unchanged and in order, and the list grows
\* by one.
C1_PureAppend ==
  [][\A s \in Sessions :
       SaveCompletes(s) =>
         /\ patient_file'.st = "list"
         /\ load_patient_data' = Append(load_patient_data, data[s])
         /\ Len(load_patient_data') = Len(load_patient_data) + 1
         /\ \A k \in 1..Len(load_patient_data) :
              load_patient_data'[k] = load_patient_data[k]]_vars

\* A second save has completed on top of a stored record.
C1_Witness ==
  /\ pc[1] = "waveforms"
  /\ "saved" \in shown[1]
  /\ Len(existing[1]) = 1
  /\ patient_file.st = "list"
  /\ patient_file.recs = <<existing[1][1], data[1]>>
  /\ existing[1][1].date = 1
  /\ data[1].date = 2

\* Both sessions have completed a save in their current runs after reading
\* the same list.
BothSavedFromSameRead ==
  /\ "saved" \in shown[1]
  /\ "saved" \in shown[2]
  /\ existing[1] = existing[2]

Stored(d) == \E k \in 1..Len(patient_file.recs) : patient_file.recs[k] = d

\* C2: when two sessions' saves interleave so that both read the file before
\* either writes it, both calls complete and the stored list holds the list
\* they read plus exactly one of the two records: the other update is lost.
C2_LostUpdate ==
  BothSavedFromSameRead =>
    /\ patient_file.st = "list"
    /\ Len(patient_file.recs) = Len(existing[1]) + 1
    /\ data[1] # data[2]
    /\ Stored(data[1]) # Stored(data[2])

\* The lost update has happened.
C2_Witness ==
  /\ BothSavedFromSameRead
  /\ pc[1] \notin {"save_read", "save_write"}
  /\ pc[2] \notin {"save_read", "save_write"}
  /\ Len(patient_file.recs) = 1
  /\ ~(Stored(data[1]) /\ Stored(data[2]))

\* The run of session s has the SMS button pressed with incomplete input.
SmsIncomplete(s) ==
  /\ button[s] = "sms"
  /\ ~(Cardinality(DOMAIN valve_paths[s]) = 4 /\ phone[s] # "")

C4_Original ==
  /\ [](\A s \in Sessions :
          "sms_error" \in shown[s] =>
            /\ "sms_success" \notin shown[s]
            /\ pc[s] # "fault"
            /\ pc[s] = "done" => shown[s] \cap {"history", "no_history"} # {})
  /\ [][\A s \in Sessions :
          (button[s] = "sms" /\ pc[s] # "idle") => patient_file' = patient_file]_vars

\* C4, amended: when send_sms raises, the handler catches it: the run shows
\* the error message and not the success message, the stored list is
\* unchanged, and the run goes on to the Case History section, which is
\* rendered unless the patient data file does not parse (the only way such a
\* run ends in a fault).
C4_ErrorCaught ==
  /\ [](\A s \in Sessions :
          "sms_error" \in shown[s] =>
            /\ "sms_success" \notin shown[s]
            /\ sms_calls[s] = 1
            /\ pc[s] \in {"history", "done", "fault"}
            /\ pc[s] = "fault" => patient_file.st = "malformed"
            /\ pc[s] = "done" => shown[s] \cap {"history", "no_history"} # {})
  /\ [][\A s \in Sessions :
          /\ (button[s] = "sms" /\ pc[s] # "idle") => patient_file' = patient_file
          /\ (pc[s] = "sms_button" /\ sms_calls'[s] > sms_calls[s]) =>
               /\ pc'[s] = "history"
               /\ shown'[s] \cap {"sms_success", "sms_error"} # {}
          /\ (pc[s] = "history" /\ pc'[s] # "history" /\ patient_file.st # "malformed") =>
               pc'[s] = "done"]_vars

\* send_sms raised, the error was shown and the history was rendered below it.
C4_Witness ==
  /\ pc[1] = "done"
  /\ "sms_error" \in shown[1]
  /\ "sms_success" \notin shown[1]
  /\ "history" \in shown[1]

RecordFields ==
  {"name", "age", "gender", "notes", "height", "weight", "bmi", "file", "date"}

\* The basename of the edited file of the k-th valve in session s's run.
EditedName(s, k) == <<valve_labels[k], "_">> \o
  SubSeq(valve_paths[s][valve_labels[k]], 5, Len(valve_paths[s][valve_labels[k]]))

\* C5: the stored list grows only by the save handler of a run with the Save
\* button pressed and all four labels uploaded; the record appended has the
\* nine fields, its file field being the four edited basenames, one per
\* valve in the order Aortic, Pulmonary, Tricuspid, Mitral, joined by ", ";
\* a Save press with fewer than four uploads changes neither the file nor
\* patient_saved.
C5_RecordShape ==
  [][/\ Len(patient_file'.recs) > Len(patient_file.recs) =>
          \E s \in Sessions :
            /\ button[s] = "save"
            /\ DOMAIN valve_paths[s] = {"Aortic", "Pulmonary", "Tricuspid", "Mitral"}
            /\ patient_file'.recs = Append(patient_file.recs, data[s])
            /\ DOMAIN data[s] = RecordFields
            /\ data[s].file =
                 EditedName(s, 1) \o <<",", " ">> \o EditedName(s, 2) \o <<",", " ">>
                   \o EditedName(s, 3) \o <<",", " ">> \o EditedName(s, 4)
            /\ valve_labels[1] = "Aortic" /\ valve_labels[2] = "Pulmonary"
            /\ valve_labels[3] = "Tricuspid" /\ valve_labels[4] = "Mitral"
     /\ \A s \in Sessions :
          /\ (button[s] = "save" /\ Cardinality(DOMAIN valve_paths[s]) < 4
                /\ pc[s] # "idle") =>
               /\ patient_file' = patient_file
               /\ patient_saved'[s] = patient_saved[s]
          /\ (patient_saved'[s] # patient_saved[s]) =>
               /\ button[s] = "save"
               /\ Cardinality(DOMAIN valve_paths[s]) = 4]_vars

\* A record built from four differently named uploads has been stored.
C5_Witness ==
  /\ "saved" \in shown[1]
  /\ patient_saved[1]
  /\ patient_file.st = "list"
  /\ patient_file.recs[Len(patient_file.recs)] = data[1]
  /\ data[1].file =
       <<"Aortic", "_", "a", ",", " ", "Pulmonary", "_", "b", "_", "c", ",", " ",
         "Tricuspid", "_", "a", ",", " ", "Mitral", "_", "a">>

\* C6: while the patient data file holds text that does not parse, the read
\* step of save_patient_data and load_patient_data both end the run in a
\* fault; save_patient_data never gets to its write, so the file keeps its
\* content, the record is not stored and patient_saved is not set.
C6_MalformedUnhandled ==
  [][\A s \in Sessions :
       patient_file.st = "malformed" =>
         /\ patient_file' = patient_file
         /\ patient_saved' = patient_saved
         /\ "saved" \notin shown'[s]
         /\ (pc[s] = "save_read" /\ pc'[s] # "save_read") =>
              /\ pc'[s] = "fault"
              /\ existing'[s] = existing[s]
         /\ (pc[s] = "history" /\ pc'[s] # "history") =>
              /\ pc'[s] = "fault"
              /\ hist'[s] = hist[s]
         /\ pc'[s] # "save_write"]_vars

\* A save on a malformed file has faulted after building the record.
C6_Witness ==
  /\ patient_file.st = "malformed"
  /\ pc[1] = "fault"
  /\ button[1] = "save"
  /\ Len(edited_files[1]) = 4
  /\ data[1] # NoData
  /\ "saved" \notin shown[1]

\* C7: when the file parses, Case History renders every stored record,
\* newest first, without a fault and without changing the stored list, and
\* shows audio and waveform only for looked-up files that are present in the
\* edited folder: a record whose files are gone is rendered as text alone.
C7_OrphanRendered ==
  [][\A s \in Sessions :
       (pc[s] = "history" /\ pc'[s] # "history" /\ patient_file.st # "malformed") =>
         /\ pc'[s] = "done"
         /\ patient_file' = patient_file
         /\ edited' = edited
         /\ Len(hist'[s]) = Len(patient_file.recs)
         /\ \A k \in 1..Len(patient_file.recs) :
              /\ hist'[s][k].entry =
                   patient_file.recs[Len(patient_file.recs) + 1 - k]
              /\ \A l \in hist'[s][k].audio :
                   PathJoin(EDITED_FOLDER, HistoryFilename(hist'[s][k].entry, l))
                     \in edited
              /\ (edited = {}) => hist'[s][k].audio = {}]_vars

\* Every edited file has been deleted, and the history shows the stored
\* record with no audio.
C7_Witness ==
  /\ pc[1] = "done"
  /\ edited = {}
  /\ Len(patient_file.recs) > 0
  /\ Len(hist[1]) = Len(patient_file.recs)
  /\ \A k \in 1..Len(hist[1]) : hist[1][k].audio = {}
  /\ "history" \in shown[1]

\* C8: for a stored record and every valve label, the name Case History
\* rebuilds for that valve is the edited file the record names at that
\* valve's position.
C8_LookupMatches ==
  \A s \in Sessions :
    "saved" \in shown[s] =>
      \A k \in 1..Len(valve_labels) :
        HistoryFilename(data[s], valve_labels[k]) = edited_files[s][k]

\* C9: in a run, edit_and_show_waveform is called at most once per label.
C9_OneCallPerLabel ==
  \A s \in Sessions : \A l \in Labels : calls[s][l] <= 1

\* C10: a record is appended only when the four edited files it names have
\* been written in the same run; a fault while editing leaves the file and
\* patient_saved as they were; only the save handler's calls write edited
\* files, the waveform section writes none.
C10_FilesBeforeRecord ==
  /\ [](\A s \in Sessions :
          /\ (pc[s] = "fault" /\ button[s] = "save" /\ Len(edited_files[s]) < 4) =>
               /\ "saved" \notin shown[s]
               /\ data[s] = NoData
          /\ written[s] # {} => button[s] = "save")
  /\ [][\A s \in Sessions :
          /\ SaveCompletes(s) =>
               /\ Len(edited_files[s]) = 4
               /\ \A k \in 1..4 :
                    /\ PathJoin(EDITED_FOLDER, edited_files[s][k]) \in written[s]
                    /\ PathJoin(EDITED_FOLDER, edited_files[s][k]) \in edited
                    /\ edited_files[s][k] = EditedName(s, k)
          /\ (pc[s] = "save_edit" /\ pc'[s] = "fault") =>
               /\ patient_file' = patient_file
               /\ patient_saved' = patient_saved
          /\ pc[s] = "fault" =>
               /\ patient_file' = patient_file
               /\ patient_saved' = patient_saved
          /\ pc[s] = "waveforms" =>
               /\ edited' = edited
               /\ written' = written]_vars

\* Editing faulted at the third valve: two files written, nothing stored.
C10_Witness ==
  /\ pc[1] = "fault"
  /\ button[1] = "save"
  /\ Len(edited_files[1]) = 2
  /\ Cardinality(written[1]) = 2
  /\ calls[1]["Tricuspid"] = 1
  /\ patient_file = AbsentFile
  /\ ~patient_saved[1]

====
